---------------------------- MODULE Spec2Model ----------------------------
(***************************************************************************)
(* Model of the `sf meta go` command: a metadata file path is classified,  *)
(* dispatched to one of 15 resolvers, resolved to a relative setup URL by  *)
(* catalog queries against the org, and opened in the browser.             *)
(*                                                                         *)
(* Strings are sequences of one-character strings, so that split,          *)
(* substring, endsWith and decodeURIComponent are computed as JavaScript   *)
(* computes them.                                                          *)
(***************************************************************************)
EXTENDS Integers, Sequences, FiniteSets

\* ------------------------------------------------------------------------
\* Bounds of the model
\* ------------------------------------------------------------------------

\* longest base filename of the exhaustively enumerated short paths
MaxBaseLen == 7

\* longest object name of the exhaustively enumerated object paths
MaxNameLen == 8

\* most records a catalog query returns
MaxRecords == 2

\* ------------------------------------------------------------------------
\* String literals
\* ------------------------------------------------------------------------

DOT == <<".">>
DUNDER == <<"_","_">>
DASH == <<"-">>
SLASH == <<"/">>
BACKSLASH == <<"\\">>
SUFFIX_C == <<"_","_","c">>
SUFFIX_MDT == <<"_","_","m","d","t">>
SUFFIX_E == <<"_","_","e">>
SUFFIX_ID == <<"I","d">>
STR_UNDEFINED == <<"u","n","d","e","f","i","n","e","d">>

EXT_FLOW == <<"f","l","o","w","-","m","e","t","a",".","x","m","l">>
EXT_FIELD == <<"f","i","e","l","d","-","m","e","t","a",".","x","m","l">>
EXT_VALIDATION_RULE == <<"v","a","l","i","d","a","t","i","o","n","R","u","l","e","-","m","e","t","a",".","x","m","l">>
EXT_FLEXIPAGE == <<"f","l","e","x","i","p","a","g","e","-","m","e","t","a",".","x","m","l">>
EXT_PROFILE == <<"p","r","o","f","i","l","e","-","m","e","t","a",".","x","m","l">>
EXT_PERMISSIONSET == <<"p","e","r","m","i","s","s","i","o","n","s","e","t","-","m","e","t","a",".","x","m","l">>
EXT_PERMISSIONSETGROUP == <<"p","e","r","m","i","s","s","i","o","n","s","e","t","g","r","o","u","p","-","m","e","t","a",".","x","m","l">>
EXT_CLS == <<"c","l","s">>
EXT_TRIGGER == <<"t","r","i","g","g","e","r">>
EXT_RECORD_TYPE == <<"r","e","c","o","r","d","T","y","p","e","-","m","e","t","a",".","x","m","l">>
EXT_LAYOUT == <<"l","a","y","o","u","t","-","m","e","t","a",".","x","m","l">>
EXT_OBJECT == <<"o","b","j","e","c","t","-","m","e","t","a",".","x","m","l">>
EXT_GLOBAL_VALUE_SET == <<"g","l","o","b","a","l","V","a","l","u","e","S","e","t","-","m","e","t","a",".","x","m","l">>
EXT_QUICK_ACTION == <<"q","u","i","c","k","A","c","t","i","o","n","-","m","e","t","a",".","x","m","l">>
EXT_APPROVAL_PROCESS == <<"a","p","p","r","o","v","a","l","P","r","o","c","e","s","s","-","m","e","t","a",".","x","m","l">>

\* ------------------------------------------------------------------------
\* JavaScript values and built-ins used by the source
\* ------------------------------------------------------------------------

\* the value `undefined` (an array index out of range); it is no string
Undefined == <<"<undefined>">>

\* `${v}` in a template literal
interpolate(v) == IF v = Undefined THEN STR_UNDEFINED ELSE v

\* arr[i], zero-based
At(arr, i) == IF i \in 0..(Len(arr) - 1) THEN arr[i + 1] ELSE Undefined

IsMatchAt(s, p, i) ==
    /\ i + Len(p) - 1 <= Len(s)
    /\ SubSeq(s, i, i + Len(p) - 1) = p

\* s.indexOf(p, from), one-based; 0 when p does not occur
RECURSIVE indexOf(_, _, _)
indexOf(s, p, from) ==
    IF from + Len(p) - 1 > Len(s) THEN 0
    ELSE IF IsMatchAt(s, p, from) THEN from
    ELSE indexOf(s, p, from + 1)

\* s.lastIndexOf(p), one-based; 0 when p does not occur
RECURSIVE lastIndexOfFrom(_, _, _)
lastIndexOfFrom(s, p, from) ==
    IF from < 1 THEN 0
    ELSE IF IsMatchAt(s, p, from) THEN from
    ELSE lastIndexOfFrom(s, p, from - 1)

\* s.split(sep) for a non-empty separator
RECURSIVE split(_, _)
split(s, sep) ==
    LET i == indexOf(s, sep, 1)
    IN  IF i = 0 THEN <<s>>
        ELSE <<SubSeq(s, 1, i - 1)>> \o split(SubSeq(s, i + Len(sep), Len(s)), sep)

\* s.endsWith(suffix)
endsWith(s, suffix) ==
    /\ Len(suffix) <= Len(s)
    /\ SubSeq(s, Len(s) - Len(suffix) + 1, Len(s)) = suffix

Clamp(n, len) == IF n < 0 THEN 0 ELSE IF n > len THEN len ELSE n

\* s.substring(start, end): both clamped to 0..length, swapped when start > end
substring(s, start, end) ==
    LET a == Clamp(start, Len(s))
        b == Clamp(end, Len(s))
    IN  IF a <= b THEN SubSeq(s, a + 1, b) ELSE SubSeq(s, b + 1, a)

HexDigits ==
    {"0","1","2","3","4","5","6","7","8","9",
     "a","b","c","d","e","f","A","B","C","D","E","F"}

\* the character an escape %XY stands for (the escapes the paths here use;
\* any other well-formed escape is kept as one opaque character)
DecodeEscape(x, y) ==
    CASE x = "2" /\ y = "0" -> " "
      [] x = "2" /\ y = "8" -> "("
      [] x = "2" /\ y = "9" -> ")"
      [] x = "2" /\ y = "5" -> "%"
      [] OTHER -> "?"

\* decodeURIComponent(s): [ok |-> TRUE, value] or, on a malformed escape,
\* [ok |-> FALSE] (a URIError is thrown)
RECURSIVE decodeFrom(_, _, _)
decodeFrom(s, i, acc) ==
    IF i > Len(s) THEN [ok |-> TRUE, value |-> acc]
    ELSE IF s[i] # "%" THEN decodeFrom(s, i + 1, Append(acc, s[i]))
    ELSE IF i + 2 <= Len(s) /\ s[i + 1] \in HexDigits /\ s[i + 2] \in HexDigits
         THEN decodeFrom(s, i + 3, Append(acc, DecodeEscape(s[i + 1], s[i + 2])))
    ELSE [ok |-> FALSE, value |-> <<>>]

decodeURIComponent(v) == decodeFrom(interpolate(v), 1, <<>>)

\* process.platform === 'win32'
isWindows(platform) == platform = "win32"

\* path.sep
sep(platform) == IF isWindows(platform) THEN BACKSLASH ELSE SLASH

Max(a, b) == IF a >= b THEN a ELSE b

\* index of the last path separator path.parse recognises: '/' everywhere,
\* and also '\' on win32
LastSeparator(platform, p) ==
    IF isWindows(platform)
    THEN Max(lastIndexOfFrom(p, SLASH, Len(p)), lastIndexOfFrom(p, BACKSLASH, Len(p)))
    ELSE lastIndexOfFrom(p, SLASH, Len(p))

\* path.parse(p), for a relative path that does not end in a separator:
\* dir is what precedes the last separator, base what follows it
parse(platform, p) ==
    LET i == LastSeparator(platform, p)
    IN  IF i = 0 THEN [dir |-> <<>>, base |-> p]
        ELSE [dir |-> SubSeq(p, 1, i - 1), base |-> SubSeq(p, i + 1, Len(p))]

\* ------------------------------------------------------------------------
\* Utils
\* ------------------------------------------------------------------------

isStandardField(apiName) == ~endsWith(apiName, SUFFIX_C)

isCustomMetadata(apiName) == endsWith(apiName, SUFFIX_MDT)

isPlatformEvent(apiName) == endsWith(apiName, SUFFIX_E)

\* mutant: the namespace is not skipped, the first segment is always taken
getObjectFieldDeveloperName_FirstSegment(fileName) ==
    split(fileName, DUNDER)[1]

getObjectFieldDeveloperName(fileName) ==
    LET fieldSplitted == split(fileName, DUNDER)
    IN  IF Len(fieldSplitted) > 2 THEN fieldSplitted[2] ELSE fieldSplitted[1]

\* ------------------------------------------------------------------------
\* Path classifier and resolver dispatch
\* ------------------------------------------------------------------------

\* mutant: the compound token is taken from two segments on (>= 2), so that
\* 'MyClass.cls' gives 'MyClass.cls'
getExtension_OffByOne(pathParsedBase) ==
    LET fileNameSplitted == split(pathParsedBase, DOT)
        n == Len(fileNameSplitted)
    IN  IF n >= 2
        THEN fileNameSplitted[n - 1] \o DOT \o fileNameSplitted[n]
        ELSE fileNameSplitted[n]

getExtension(pathParsedBase) ==
    LET fileNameSplitted == split(pathParsedBase, DOT)
        n == Len(fileNameSplitted)
    IN  IF n > 2
        THEN fileNameSplitted[n - 1] \o DOT \o fileNameSplitted[n]
        ELSE fileNameSplitted[n]

\* an Error object: its class, and its message as a fixed text followed by
\* an interpolated name
Err(name, text, arg) == [name |-> name, text |-> text, arg |-> arg]

\* the resolver class Factory.create selects for a token, "none" when the
\* else branch is reached
ResolverFor(extension) ==
    CASE extension = EXT_FLOW -> "Flow"
      [] extension = EXT_FIELD -> "Field"
      [] extension = EXT_VALIDATION_RULE -> "ValidationRule"
      [] extension = EXT_FLEXIPAGE -> "FlexiPage"
      [] extension = EXT_PROFILE -> "Profile"
      [] extension = EXT_PERMISSIONSET -> "PermissionSet"
      [] extension = EXT_PERMISSIONSETGROUP -> "PermissionSetGroup"
      [] extension = EXT_CLS -> "ApexClass"
      [] extension = EXT_TRIGGER -> "ApexTrigger"
      [] extension = EXT_RECORD_TYPE -> "RecordType"
      [] extension = EXT_LAYOUT -> "PageLayout"
      [] extension = EXT_OBJECT -> "SObject"
      [] extension = EXT_GLOBAL_VALUE_SET -> "GlobalValueSet"
      [] extension = EXT_QUICK_ACTION -> "QuickAction"
      [] extension = EXT_APPROVAL_PROCESS -> "ApprovalProcess"
      [] OTHER -> "none"

\* mutant: the dot before the token is not stripped
metadataApiNameOf_KeepsDot(base, extension) ==
    substring(base, 0, Len(base) - Len(extension))

\* Metadata.constructor: the API name is the base without the token and
\* the dot before it
metadataApiNameOf(base, extension) ==
    substring(base, 0, Len(base) - (Len(extension) + 1))

\* mutant: the final else selects a default resolver instead of throwing
create_DefaultsToFlow(extension, pathParsed) ==
    IF extension = <<>>
    THEN [ok |-> FALSE, error |-> Err("Error", "Invalid parameters", <<>>)]
    ELSE [ok |-> TRUE,
          metadata |-> [kind |-> IF ResolverFor(extension) = "none"
                                 THEN "Flow" ELSE ResolverFor(extension),
                        extension |-> extension,
                        metadataApiName |->
                            metadataApiNameOf(pathParsed.base, extension)]]

\* Factory.create(conn, extension, pathParsed); conn and pathParsed are
\* objects, so only an empty extension is falsy
create(extension, pathParsed) ==
    IF extension = <<>>
    THEN [ok |-> FALSE, error |-> Err("Error", "Invalid parameters", <<>>)]
    ELSE IF ResolverFor(extension) = "none"
    THEN [ok |-> FALSE, error |-> Err("Error", "Unsupported metadata type", <<>>)]
    ELSE [ok |-> TRUE,
          metadata |-> [kind |-> ResolverFor(extension),
                        extension |-> extension,
                        metadataApiName |->
                            metadataApiNameOf(pathParsed.base, extension)]]

\* ------------------------------------------------------------------------
\* Catalog queries
\* ------------------------------------------------------------------------

NoError == Err("none", "", <<>>)

\* identifiers the org's catalog hands out
RecordIds == {<<"0","1">>, <<"0","2">>}

EntityIds == {<<"E","1">>, <<"E","2">>}

\* the fields of a record the resolvers read; only ValidationRule records
\* carry an EntityDefinitionId
RecordsOf(sobject) ==
    IF sobject = "ValidationRule"
    THEN [Id : RecordIds, EntityDefinitionId : EntityIds]
    ELSE [Id : RecordIds, EntityDefinitionId : {Undefined}]

\* a query either fails in transport or returns 0..MaxRecords records
TransportErrors ==
    {Err("Error", "ECONNRESET", <<>>), Err("Error", "INVALID_SESSION_ID", <<>>)}

Outcomes(sobject) ==
    [ok : {FALSE}, records : {<<>>}, error : TransportErrors]
    \cup [ok : {TRUE},
          records : UNION {[1..n -> RecordsOf(sobject)] : n \in 0..MaxRecords},
          error : {NoError}]

\* no answer yet
NoAnswer == [ok |-> FALSE, records |-> <<>>, error |-> NoError]

\* the getObjectId invocation of a run: the name it was called with, the
\* DeveloperName it queries, and how its promise stands
NoObjLookup ==
    [status |-> "none", objectName |-> <<>>, key |-> <<>>, sent |-> FALSE,
     answer |-> NoAnswer, objectId |-> <<>>, error |-> NoError]

\* the resolver's own query: catalog object, filter field and value, the
\* name its not-found message interpolates, and how its promise stands
NoSecLookup ==
    [status |-> "none", sobject |-> "", field |-> "", key |-> <<>>,
     tableEnumOrId |-> <<>>, name |-> <<>>, answer |-> NoAnswer,
     error |-> NoError]

\* a relative URL: the template literal and the values interpolated into it
Url(template, params) == [template |-> template, params |-> params]

NoUrl == Url("", <<>>)

Pending == [status |-> "pending", url |-> NoUrl, error |-> NoError]

Resolved(url) == [status |-> "resolved", url |-> url, error |-> NoError]

Rejected(error) == [status |-> "rejected", url |-> NoUrl, error |-> error]

\* getObjectId up to its await: the developer name is computed and the
\* CustomObject query sent; on `undefined` the split throws a TypeError
\* and the returned promise is rejected without a query
getObjectIdCall(objectName) ==
    IF objectName = Undefined
    THEN [NoObjLookup EXCEPT
            !.status = "rejected",
            !.objectName = objectName,
            !.error = Err("TypeError",
                          "Cannot read properties of undefined (reading 'split')",
                          <<>>)]
    ELSE [NoObjLookup EXCEPT
            !.status = "pending",
            !.objectName = objectName,
            !.key = getObjectFieldDeveloperName(objectName),
            !.sent = TRUE]

\* getObjectId after its await, given what the query came back with
getObjectIdSettle(lookup, outcome) ==
    IF ~outcome.ok
    THEN [lookup EXCEPT
            !.status = "rejected", !.answer = outcome, !.error = outcome.error]
    ELSE IF Len(outcome.records) = 0
    THEN [lookup EXCEPT
            !.status = "rejected",
            !.answer = outcome,
            !.error = Err("Error", "Object not found for ",
                          interpolate(lookup.objectName))]
    ELSE [lookup EXCEPT
            !.status = "resolved",
            !.answer = outcome,
            !.objectId = outcome.records[1].Id]

\* conn.tooling.sobject(s).find({f: key}).execute() and conn.query(...):
\* the query is sent and its promise is pending
find(sobject, field, key, tableEnumOrId, name) ==
    [NoSecLookup EXCEPT
        !.status = "pending", !.sobject = sobject, !.field = field,
        !.key = key, !.tableEnumOrId = tableEnumOrId, !.name = name]

\* the promise of such a query once the org has answered
findSettle(lookup, outcome) ==
    IF ~outcome.ok
    THEN [lookup EXCEPT
            !.status = "rejected", !.answer = outcome, !.error = outcome.error]
    ELSE [lookup EXCEPT !.status = "resolved", !.answer = outcome]

\* ------------------------------------------------------------------------
\* Resolvers
\* ------------------------------------------------------------------------

SingleQueryKinds ==
    {"Flow", "ValidationRule", "FlexiPage", "Profile", "PermissionSet",
     "PermissionSetGroup", "ApexClass", "ApexTrigger", "GlobalValueSet"}

ConcurrentKinds == {"QuickAction", "PageLayout", "RecordType"}

\* per resolver: the catalog object queried, the filter field, the text of
\* the not-found message and the URL template
Resolver(kind) ==
    CASE kind = "Flow" ->
           [sobject |-> "FlowDefinition", field |-> "DeveloperName",
            notFound |-> "Flow not found for ",
            template |-> "lightning/setup/Flows/page?address=%2F{Id}"]
      [] kind = "ValidationRule" ->
           [sobject |-> "ValidationRule", field |-> "ValidationName",
            notFound |-> "ValidationRule not found for ",
            template |-> "lightning/setup/ObjectManager/{EntityDefinitionId}/ValidationRules/{Id}/view"]
      [] kind = "FlexiPage" ->
           [sobject |-> "FlexiPage", field |-> "DeveloperName",
            notFound |-> "FlexiPage not found for ",
            template |-> "visualEditor/appBuilder.app?id={Id}"]
      [] kind = "Profile" ->
           [sobject |-> "Profile", field |-> "Name",
            notFound |-> "Profile not found for ",
            template |-> "lightning/setup/EnhancedProfiles/page?address=%2F{Id}"]
      [] kind = "PermissionSet" ->
           [sobject |-> "PermissionSet", field |-> "Name",
            notFound |-> "PermissionSet not found for ",
            template |-> "lightning/setup/PermSets/page?address=%2F{Id}"]
      [] kind = "PermissionSetGroup" ->
           [sobject |-> "PermissionSetGroup", field |-> "DeveloperName",
            notFound |-> "PermissionSetGroup not found for ",
            template |-> "lightning/setup/PermSetGroups/page?address=%2F{Id}"]
      [] kind = "ApexClass" ->
           [sobject |-> "ApexClass", field |-> "Name",
            notFound |-> "ApexClass not found for ",
            template |-> "lightning/setup/ApexClasses/page?address=%2F{Id}"]
      [] kind = "ApexTrigger" ->
           [sobject |-> "ApexTrigger", field |-> "Name",
            notFound |-> "ApexTrigger not found for ",
            template |-> "lightning/setup/ApexTriggers/page?address=%2F{Id}"]
      [] kind = "GlobalValueSet" ->
           [sobject |-> "GlobalValueSet", field |-> "DeveloperName",
            notFound |-> "GlobalValueSet not found for ",
            template |-> "lightning/setup/Picklists/page?address=%2F{Id}"]
      [] kind = "ApprovalProcess" ->
           [sobject |-> "ProcessDefinition", field |-> "DeveloperName",
            notFound |-> "Approval process not found for ",
            template |-> "lightning/setup/ApprovalProcesses/page?address=%2F{Id}"]
      [] kind = "QuickAction" ->
           [sobject |-> "QuickActionDefinition", field |-> "DeveloperName",
            notFound |-> "QuickAction not found for ",
            template |-> "lightning/setup/ObjectManager/{objectId}/ButtonsLinksActions/{Id}/view"]
      [] kind = "PageLayout" ->
           [sobject |-> "Layout", field |-> "Name",
            notFound |-> "Layout not found for ",
            template |-> "lightning/setup/ObjectManager/{objectId}/PageLayouts/{Id}/view"]
      [] kind = "RecordType" ->
           [sobject |-> "RecordType", field |-> "DeveloperName",
            notFound |-> "RecordType not found for ",
            template |-> "lightning/setup/ObjectManager/{objectId}/RecordTypes/{Id}/view"]
      [] kind = "Field" ->
           [sobject |-> "CustomField", field |-> "DeveloperName",
            notFound |-> "Field not found for ",
            template |-> "lightning/setup/ObjectManager/{objectId}/FieldsAndRelationships/{Id}/view"]

\* arrayPath[arrayPath.length - 2] of pathParsed.dir.split(path.sep)
objectFolderNameOf(platform, pathParsed) ==
    LET arrayPath == split(pathParsed.dir, sep(platform))
    IN  At(arrayPath, Len(arrayPath) - 2)

\* mutant: the URL is built from the last record of the result
firstRecordUrl_LastRecord(kind, records) ==
    IF kind = "ValidationRule"
    THEN Url(Resolver(kind).template,
             <<interpolate(records[Len(records)].EntityDefinitionId),
               records[Len(records)].Id>>)
    ELSE Url(Resolver(kind).template, <<records[Len(records)].Id>>)

\* the URL a resolver builds from the first record of its own query
firstRecordUrl(kind, records) ==
    IF kind = "ValidationRule"
    THEN Url(Resolver(kind).template,
             <<interpolate(records[1].EntityDefinitionId), records[1].Id>>)
    ELSE Url(Resolver(kind).template, <<records[1].Id>>)

\* mutant: the length check is missing, so that reading records[0].Id of
\* an empty result throws a TypeError
singleQuerySettle_NoEmptyCheck(kind, sec) ==
    IF sec.status = "rejected" THEN Rejected(sec.error)
    ELSE IF Len(sec.answer.records) = 0
    THEN Rejected(Err("TypeError",
                      "Cannot read properties of undefined (reading 'Id')",
                      <<>>))
    ELSE Resolved(firstRecordUrl(kind, sec.answer.records))

\* a resolver with one query, after its await
singleQuerySettle(kind, sec) ==
    IF sec.status = "rejected" THEN Rejected(sec.error)
    ELSE IF Len(sec.answer.records) = 0
    THEN Rejected(Err("Error", Resolver(kind).notFound, interpolate(sec.name)))
    ELSE Resolved(firstRecordUrl(kind, sec.answer.records))

\* SObject.getUrl after its await of getObjectId
sobjectSettle(metadataApiName, obj) ==
    IF obj.status = "rejected" THEN Rejected(obj.error)
    ELSE IF isCustomMetadata(metadataApiName)
    THEN Resolved(Url("lightning/setup/CustomMetadata/page?address=%2F{objectId}%3Fsetupid%3DCustomMetadata",
                      <<obj.objectId>>))
    ELSE IF isPlatformEvent(metadataApiName)
    THEN Resolved(Url("lightning/setup/EventObjects/page?address=%2F{objectId}%3Fsetupid%3DEventObjects",
                      <<obj.objectId>>))
    ELSE Resolved(Url("lightning/setup/ObjectManager/{objectId}/Details/view",
                      <<obj.objectId>>))

\* mutant: the join waits for both promises to settle before it rejects
\* (Promise.allSettled followed by a check)
PromiseAll_WaitsForBoth(obj, sec) ==
    IF obj.status \in {"none", "pending"} \/ sec.status \in {"none", "pending"}
    THEN Pending
    ELSE IF obj.status = "rejected" THEN Rejected(obj.error)
    ELSE IF sec.status = "rejected" THEN Rejected(sec.error)
    ELSE Resolved(NoUrl)

\* Promise.all([objIdPromise, secondPromise]): rejected as soon as one of
\* the two is, fulfilled once both are
PromiseAll(obj, sec) ==
    IF obj.status = "rejected" THEN Rejected(obj.error)
    ELSE IF sec.status = "rejected" THEN Rejected(sec.error)
    ELSE IF obj.status = "resolved" /\ sec.status = "resolved" THEN Resolved(NoUrl)
    ELSE Pending

\* mutant: the secondary query is awaited and checked on its own, before
\* the object id is awaited
concurrentSettle_SecondaryFirst(kind, obj, sec) ==
    IF sec.status = "rejected" THEN Rejected(sec.error)
    ELSE IF sec.status # "resolved" THEN Pending
    ELSE IF Len(sec.answer.records) = 0
    THEN Rejected(Err("Error", Resolver(kind).notFound, interpolate(sec.name)))
    ELSE IF obj.status = "rejected" THEN Rejected(obj.error)
    ELSE IF obj.status # "resolved" THEN Pending
    ELSE Resolved(Url(Resolver(kind).template,
                      <<obj.objectId, sec.answer.records[1].Id>>))

\* QuickAction, PageLayout and RecordType getUrl from the await of
\* Promise.all on
concurrentSettle(kind, obj, sec) ==
    LET all == PromiseAll(obj, sec)
    IN  IF all.status # "resolved" THEN all
        ELSE IF Len(sec.answer.records) = 0
        THEN Rejected(Err("Error", Resolver(kind).notFound, interpolate(sec.name)))
        ELSE Resolved(Url(Resolver(kind).template,
                          <<obj.objectId, sec.answer.records[1].Id>>))

\* Field.getUrl for a standard field: no await, the URL is built from the
\* folder name and the API name less a trailing 'Id'
standardFieldName(metadataApiName) ==
    IF endsWith(metadataApiName, SUFFIX_ID)
    THEN substring(metadataApiName, 0, Len(metadataApiName) - 2)
    ELSE metadataApiName

standardFieldUrl(objectFolderName, metadataApiName) ==
    Url("lightning/setup/ObjectManager/{objectFolderName}/FieldsAndRelationships/{metadataApiName}/view",
        <<interpolate(objectFolderName), standardFieldName(metadataApiName)>>)

\* Field.getUrl for a custom field, after the await of the CustomField query
customFieldSettle(objectFolderName, obj, sec) ==
    IF sec.status = "rejected" THEN Rejected(sec.error)
    ELSE IF Len(sec.answer.records) = 0
    THEN Rejected(Err("Error", Resolver("Field").notFound, interpolate(sec.name)))
    ELSE IF isCustomMetadata(objectFolderName)
    THEN Resolved(Url("lightning/setup/CustomMetadata/page?address=%2F{Id}%3Fsetupid%3DCustomMetadata",
                      <<sec.answer.records[1].Id>>))
    ELSE IF isPlatformEvent(objectFolderName)
    THEN Resolved(Url("lightning/setup/EventObjects/page?address=%2F{Id}%3Fsetupid%3DEventObjects",
                      <<sec.answer.records[1].Id>>))
    ELSE Resolved(Url(Resolver("Field").template,
                      <<obj.objectId, sec.answer.records[1].Id>>))

\* ------------------------------------------------------------------------
\* State of one run of the command
\* ------------------------------------------------------------------------

VARIABLES
    pathString,     \* flags.metadata
    platform,       \* process.platform
    conn,           \* the org connection; only instanceUrl is read
    pc,             \* where the run stands
    pathParsed,     \* path.parse(pathString)
    extension,      \* getExtension(pathParsed.base)
    metadata,       \* the resolver Factory.create returned
    objLookup,      \* the getObjectId invocation of getUrl
    secLookup,      \* the resolver's own catalog query
    getUrlPromise,  \* the promise metadata.getUrl() returned
    execCalls,      \* the commands handed to exec, in order
    execExit,       \* how the exec'd command ended
    exception,      \* the error go() rejected with
    result,         \* what run() returned
    logged          \* what run() logged

vars ==
    <<pathString, platform, conn, pc, pathParsed, extension, metadata,
      objLookup, secLookup, getUrlPromise, execCalls, execExit, exception,
      result, logged>>

NoMetadata == [kind |-> "none", extension |-> <<>>, metadataApiName |-> <<>>]

NoParsedPath == [dir |-> <<>>, base |-> <<>>]

NoResult == [isSuccess |-> FALSE, error |-> [text |-> "", arg |-> <<>>], returned |-> FALSE]

\* ------------------------------------------------------------------------
\* Inputs
\* ------------------------------------------------------------------------

\* all strings over an alphabet of length lo..hi
Strings(alphabet, lo, hi) == UNION {[1..n -> alphabet] : n \in lo..hi}

\* every base filename of up to MaxBaseLen letters and dots, as a path
\* without directories
ShortPaths == Strings({"a", "."}, 1, MaxBaseLen)

\* every object name of up to MaxNameLen letters and underscores, as the
\* path of its object-meta.xml file
ObjectPaths ==
    {name \o DOT \o EXT_OBJECT : name \in Strings({"a", "_"}, 1, MaxNameLen)}

\* paths following the packaging layout, one or more per resolver, with
\* full, short and missing directories
SamplePaths ==
    {<<"o","b","j","e","c","t","s","/","A","c","c","o","u","n","t","/","f","i","e","l","d","s","/","N","a","m","e",".","f","i","e","l","d","-","m","e","t","a",".","x","m","l">>,
     <<"o","b","j","e","c","t","s","/","A","c","c","o","u","n","t","/","f","i","e","l","d","s","/","O","w","n","e","r","I","d",".","f","i","e","l","d","-","m","e","t","a",".","x","m","l">>,
     <<"o","b","j","e","c","t","s","/","A","c","c","o","u","n","t","/","f","i","e","l","d","s","/","F","i","e","l","d","_","_","c",".","f","i","e","l","d","-","m","e","t","a",".","x","m","l">>,
     <<"o","b","j","e","c","t","s","/","A","c","c","o","u","n","t","/","f","i","e","l","d","s","/","N","a","m","e","s","p","a","c","e","_","_","F","i","e","l","d","_","_","c",".","f","i","e","l","d","-","m","e","t","a",".","x","m","l">>,
     <<"o","b","j","e","c","t","s","/","C","f","g","_","_","m","d","t","/","f","i","e","l","d","s","/","F","i","e","l","d","_","_","c",".","f","i","e","l","d","-","m","e","t","a",".","x","m","l">>,
     <<"o","b","j","e","c","t","s","/","E","v","t","_","_","e","/","f","i","e","l","d","s","/","F","i","e","l","d","_","_","c",".","f","i","e","l","d","-","m","e","t","a",".","x","m","l">>,
     <<"o","b","j","e","c","t","s","/","n","s","_","_","O","b","j","_","_","c","/","f","i","e","l","d","s","/","F","i","e","l","d","_","_","c",".","f","i","e","l","d","-","m","e","t","a",".","x","m","l">>,
     <<"o","b","j","e","c","t","s","\\","A","c","c","o","u","n","t","\\","f","i","e","l","d","s","\\","F","i","e","l","d","_","_","c",".","f","i","e","l","d","-","m","e","t","a",".","x","m","l">>,
     <<"f","i","e","l","d","s","/","F","i","e","l","d","_","_","c",".","f","i","e","l","d","-","m","e","t","a",".","x","m","l">>,
     <<"f","i","e","l","d","s","/","N","a","m","e",".","f","i","e","l","d","-","m","e","t","a",".","x","m","l">>,
     <<"A","c","c","o","u","n","t",".","f","i","e","l","d","-","m","e","t","a",".","x","m","l">>,
     <<"o","b","j","e","c","t","s","/","A","c","c","o","u","n","t","/","r","e","c","o","r","d","T","y","p","e","s","/","B","i","z",".","r","e","c","o","r","d","T","y","p","e","-","m","e","t","a",".","x","m","l">>,
     <<"B","i","z",".","r","e","c","o","r","d","T","y","p","e","-","m","e","t","a",".","x","m","l">>,
     <<"l","a","y","o","u","t","s","/","A","c","c","o","u","n","t","-","A","%","2","0","B",".","l","a","y","o","u","t","-","m","e","t","a",".","x","m","l">>,
     <<"l","a","y","o","u","t","s","/","A","c","c","o","u","n","t","-","A","%",".","l","a","y","o","u","t","-","m","e","t","a",".","x","m","l">>,
     <<"l","a","y","o","u","t","s","/","A","c","c","o","u","n","t",".","l","a","y","o","u","t","-","m","e","t","a",".","x","m","l">>,
     <<"q","u","i","c","k","A","c","t","i","o","n","s","/","A","c","c","o","u","n","t",".","N","e","w",".","q","u","i","c","k","A","c","t","i","o","n","-","m","e","t","a",".","x","m","l">>,
     <<"q","u","i","c","k","A","c","t","i","o","n","s","/","N","e","w",".","q","u","i","c","k","A","c","t","i","o","n","-","m","e","t","a",".","x","m","l">>,
     <<"a","p","p","r","o","v","a","l","P","r","o","c","e","s","s","e","s","/","A","c","c","o","u","n","t",".","A","p","p","r",".","a","p","p","r","o","v","a","l","P","r","o","c","e","s","s","-","m","e","t","a",".","x","m","l">>,
     <<"a","p","p","r","o","v","a","l","P","r","o","c","e","s","s","e","s","/","A","p","p","r",".","a","p","p","r","o","v","a","l","P","r","o","c","e","s","s","-","m","e","t","a",".","x","m","l">>,
     <<"f","l","o","w","s","/","M","y","F","l","o","w",".","f","l","o","w","-","m","e","t","a",".","x","m","l">>,
     <<"c","l","a","s","s","e","s","/","M","y","C","l","a","s","s",".","c","l","s">>,
     <<"M","y","C","l","a","s","s",".","c","l","s">>,
     <<"c","l","s">>,
     <<"t","r","i","g","g","e","r","s","/","M","y","T","r","i","g",".","t","r","i","g","g","e","r">>,
     <<"o","b","j","e","c","t","s","/","A","c","c","o","u","n","t","/","v","a","l","i","d","a","t","i","o","n","R","u","l","e","s","/","R","u","l","e",".","v","a","l","i","d","a","t","i","o","n","R","u","l","e","-","m","e","t","a",".","x","m","l">>,
     <<"f","l","e","x","i","p","a","g","e","s","/","H","o","m","e",".","f","l","e","x","i","p","a","g","e","-","m","e","t","a",".","x","m","l">>,
     <<"p","r","o","f","i","l","e","s","/","A","d","m","i","n",".","p","r","o","f","i","l","e","-","m","e","t","a",".","x","m","l">>,
     <<"p","e","r","m","i","s","s","i","o","n","s","e","t","s","/","P","S",".","p","e","r","m","i","s","s","i","o","n","s","e","t","-","m","e","t","a",".","x","m","l">>,
     <<"p","e","r","m","i","s","s","i","o","n","s","e","t","g","r","o","u","p","s","/","P","S","G",".","p","e","r","m","i","s","s","i","o","n","s","e","t","g","r","o","u","p","-","m","e","t","a",".","x","m","l">>,
     <<"g","l","o","b","a","l","V","a","l","u","e","S","e","t","s","/","G","V","S",".","g","l","o","b","a","l","V","a","l","u","e","S","e","t","-","m","e","t","a",".","x","m","l">>,
     <<"o","b","j","e","c","t","s","/","A","c","c","o","u","n","t","/","A","c","c","o","u","n","t",".","o","b","j","e","c","t","-","m","e","t","a",".","x","m","l">>,
     <<"o","b","j","e","c","t","s","/","C","f","g","_","_","m","d","t","/","C","f","g","_","_","m","d","t",".","o","b","j","e","c","t","-","m","e","t","a",".","x","m","l">>,
     <<"o","b","j","e","c","t","s","/","E","v","t","_","_","e","/","E","v","t","_","_","e",".","o","b","j","e","c","t","-","m","e","t","a",".","x","m","l">>,
     <<"o","b","j","e","c","t","s","/","n","s","_","_","O","b","j","_","_","c","/","n","s","_","_","O","b","j","_","_","c",".","o","b","j","e","c","t","-","m","e","t","a",".","x","m","l">>,
     <<"d","o","c","s","/","x",".","f","o","o",".","b","a","r">>,
     <<"R","E","A","D","M","E",".","m","d">>,
     <<"M","a","k","e","f","i","l","e">>,
     <<"n","o","t","e","s",".">>}

Paths == ShortPaths \cup ObjectPaths \cup SamplePaths

Platforms == {"linux", "win32"}

Connections == {[instanceUrl |-> <<"h","t","t","p","s",":","/","/","o","r","g",".","m","y",".","s","a","l","e","s","f","o","r","c","e",".","c","o","m">>]}

\* ------------------------------------------------------------------------
\* Initial state: run() has parsed its flags
\* ------------------------------------------------------------------------

Init ==
    /\ pathString \in Paths
    /\ platform \in Platforms
    /\ conn \in Connections
    /\ pc = "start"
    /\ pathParsed = NoParsedPath
    /\ extension = <<>>
    /\ metadata = NoMetadata
    /\ objLookup = NoObjLookup
    /\ secLookup = NoSecLookup
    /\ getUrlPromise = [status |-> "none", url |-> NoUrl, error |-> NoError]
    /\ execCalls = <<>>
    /\ execExit = "none"
    /\ exception = NoError
    /\ result = NoResult
    /\ logged = <<>>

\* ------------------------------------------------------------------------
\* go(): classification and dispatch
\* ------------------------------------------------------------------------

\* path.parse, getExtension and Factory.create; a throw rejects go()
Classify ==
    /\ pc = "start"
    /\ LET parsed == parse(platform, pathString)
           ext == getExtension(parsed.base)
           made == create(ext, parsed)
       IN  /\ pathParsed' = parsed
           /\ extension' = ext
           /\ IF made.ok
              THEN /\ metadata' = made.metadata
                   /\ exception' = exception
                   /\ pc' = "created"
              ELSE /\ metadata' = metadata
                   /\ exception' = made.error
                   /\ pc' = "goRejected"
    /\ UNCHANGED <<pathString, platform, conn, objLookup, secLookup,
                   getUrlPromise, execCalls, execExit, result, logged>>

\* ------------------------------------------------------------------------
\* metadata.getUrl() up to its first await
\* ------------------------------------------------------------------------

\* the nine resolvers with one query keyed by the API name
GetUrlSingleQuery ==
    /\ pc = "created"
    /\ metadata.kind \in SingleQueryKinds
    /\ secLookup' = find(Resolver(metadata.kind).sobject,
                         Resolver(metadata.kind).field,
                         metadata.metadataApiName, <<>>,
                         metadata.metadataApiName)
    /\ getUrlPromise' = Pending
    /\ pc' = "awaitUrl"
    /\ UNCHANGED <<pathString, platform, conn, pathParsed, extension, metadata,
                   objLookup, execCalls, execExit, exception, result, logged>>

\* ApprovalProcess: the query is keyed by the second dot-segment of the API
\* name, interpolated into the SOQL text
GetUrlApprovalProcess ==
    /\ pc = "created"
    /\ metadata.kind = "ApprovalProcess"
    /\ secLookup' = find(Resolver("ApprovalProcess").sobject,
                         Resolver("ApprovalProcess").field,
                         interpolate(At(split(metadata.metadataApiName, DOT), 1)),
                         <<>>, metadata.metadataApiName)
    /\ getUrlPromise' = Pending
    /\ pc' = "awaitUrl"
    /\ UNCHANGED <<pathString, platform, conn, pathParsed, extension, metadata,
                   objLookup, execCalls, execExit, exception, result, logged>>

\* SObject: getObjectId for the API name
GetUrlSObject ==
    /\ pc = "created"
    /\ metadata.kind = "SObject"
    /\ objLookup' = getObjectIdCall(metadata.metadataApiName)
    /\ getUrlPromise' = Pending
    /\ pc' = "awaitUrl"
    /\ UNCHANGED <<pathString, platform, conn, pathParsed, extension, metadata,
                   secLookup, execCalls, execExit, exception, result, logged>>

\* QuickAction: object name and action name are the dot-segments of the
\* API name; both lookups are started, then Promise.all is awaited
GetUrlQuickAction ==
    /\ pc = "created"
    /\ metadata.kind = "QuickAction"
    /\ LET splitObjectNameLayoutName == split(metadata.metadataApiName, DOT)
           objectName == At(splitObjectNameLayoutName, 0)
           quickActionName == At(splitObjectNameLayoutName, 1)
           obj == getObjectIdCall(objectName)
           sec == find(Resolver("QuickAction").sobject,
                       Resolver("QuickAction").field,
                       quickActionName, <<>>, quickActionName)
       IN  /\ objLookup' = obj
           /\ secLookup' = sec
           /\ getUrlPromise' = concurrentSettle("QuickAction", obj, sec)
    /\ pc' = "awaitUrl"
    /\ UNCHANGED <<pathString, platform, conn, pathParsed, extension, metadata,
                   execCalls, execExit, exception, result, logged>>

\* PageLayout: object name and layout name are the dash-segments of the API
\* name; getObjectId is started, then decodeURIComponent may throw before
\* the Layout query is built
GetUrlPageLayout ==
    /\ pc = "created"
    /\ metadata.kind = "PageLayout"
    /\ LET splitObjectNameLayoutName == split(metadata.metadataApiName, DASH)
           objectName == At(splitObjectNameLayoutName, 0)
           layoutName == At(splitObjectNameLayoutName, 1)
           obj == getObjectIdCall(objectName)
           decoded == decodeURIComponent(layoutName)
           sec == find(Resolver("PageLayout").sobject,
                       Resolver("PageLayout").field,
                       decoded.value, <<>>, layoutName)
       IN  /\ objLookup' = obj
           /\ IF decoded.ok
              THEN /\ secLookup' = sec
                   /\ getUrlPromise' = concurrentSettle("PageLayout", obj, sec)
              ELSE /\ secLookup' = secLookup
                   /\ getUrlPromise' =
                        Rejected(Err("URIError", "URI malformed", <<>>))
    /\ pc' = "awaitUrl"
    /\ UNCHANGED <<pathString, platform, conn, pathParsed, extension, metadata,
                   execCalls, execExit, exception, result, logged>>

\* RecordType: the object is the folder two levels up; both lookups are
\* started, then Promise.all is awaited
GetUrlRecordType ==
    /\ pc = "created"
    /\ metadata.kind = "RecordType"
    /\ LET objectFolderName == objectFolderNameOf(platform, pathParsed)
           obj == getObjectIdCall(objectFolderName)
           sec == find(Resolver("RecordType").sobject,
                       Resolver("RecordType").field,
                       metadata.metadataApiName, <<>>,
                       metadata.metadataApiName)
       IN  /\ objLookup' = obj
           /\ secLookup' = sec
           /\ getUrlPromise' = concurrentSettle("RecordType", obj, sec)
    /\ pc' = "awaitUrl"
    /\ UNCHANGED <<pathString, platform, conn, pathParsed, extension, metadata,
                   execCalls, execExit, exception, result, logged>>

\* Field: a standard field returns its URL with no query; a custom field
\* replaces the API name by its developer name and awaits getObjectId
GetUrlField ==
    /\ pc = "created"
    /\ metadata.kind = "Field"
    /\ LET objectFolderName == objectFolderNameOf(platform, pathParsed)
       IN  IF isStandardField(metadata.metadataApiName)
           THEN /\ metadata' =
                     [metadata EXCEPT
                        !.metadataApiName = standardFieldName(@)]
                /\ objLookup' = objLookup
                /\ getUrlPromise' =
                     Resolved(standardFieldUrl(objectFolderName,
                                               metadata.metadataApiName))
           ELSE LET obj == getObjectIdCall(objectFolderName)
                IN  /\ metadata' =
                         [metadata EXCEPT
                            !.metadataApiName = getObjectFieldDeveloperName(@)]
                    /\ objLookup' = obj
                    /\ getUrlPromise' =
                         IF obj.status = "rejected"
                         THEN Rejected(obj.error) ELSE Pending
    /\ pc' = "awaitUrl"
    /\ UNCHANGED <<pathString, platform, conn, pathParsed, extension,
                   secLookup, execCalls, execExit, exception, result, logged>>

\* ------------------------------------------------------------------------
\* The org answers a query; the code awaiting it runs on
\* ------------------------------------------------------------------------

\* what getUrl does once getObjectId has settled, while it is still pending
afterObjLookup(kind, apiName, folder, obj, sec) ==
    CASE kind = "SObject" -> sobjectSettle(apiName, obj)
      [] kind = "Field" ->
           IF obj.status = "rejected" THEN Rejected(obj.error) ELSE Pending
      [] kind \in ConcurrentKinds -> concurrentSettle(kind, obj, sec)

\* the CustomObject query of getObjectId completes
ObjLookupCompletes ==
    /\ objLookup.status = "pending"
    /\ \E outcome \in Outcomes("CustomObject") :
         LET obj == getObjectIdSettle(objLookup, outcome)
             folder == objectFolderNameOf(platform, pathParsed)
         IN  /\ objLookup' = obj
             /\ getUrlPromise' =
                  IF getUrlPromise.status = "pending"
                  THEN afterObjLookup(metadata.kind, metadata.metadataApiName,
                                      folder, obj, secLookup)
                  ELSE getUrlPromise
             /\ secLookup' =
                  IF /\ metadata.kind = "Field"
                     /\ getUrlPromise.status = "pending"
                     /\ obj.status = "resolved"
                  THEN find(Resolver("Field").sobject, Resolver("Field").field,
                            metadata.metadataApiName, obj.objectId,
                            metadata.metadataApiName)
                  ELSE secLookup
    /\ UNCHANGED <<pathString, platform, conn, pc, pathParsed, extension,
                   metadata, execCalls, execExit, exception, result, logged>>

\* what getUrl does once its own query has settled, while it is still pending
afterSecLookup(kind, folder, obj, sec) ==
    CASE kind \in SingleQueryKinds \cup {"ApprovalProcess"} ->
           singleQuerySettle(kind, sec)
      [] kind = "Field" -> customFieldSettle(folder, obj, sec)
      [] kind \in ConcurrentKinds -> concurrentSettle(kind, obj, sec)

\* the resolver's own query completes
SecLookupCompletes ==
    /\ secLookup.status = "pending"
    /\ \E outcome \in Outcomes(secLookup.sobject) :
         LET sec == findSettle(secLookup, outcome)
             folder == objectFolderNameOf(platform, pathParsed)
         IN  /\ secLookup' = sec
             /\ getUrlPromise' =
                  IF getUrlPromise.status = "pending"
                  THEN afterSecLookup(metadata.kind, folder, objLookup, sec)
                  ELSE getUrlPromise
    /\ UNCHANGED <<pathString, platform, conn, pc, pathParsed, extension,
                   metadata, objLookup, execCalls, execExit, exception, result, logged>>

\* ------------------------------------------------------------------------
\* go() after getUrl, and run()
\* ------------------------------------------------------------------------

\* the command line handed to exec: `start` on Windows, `open` elsewhere,
\* followed by `${conn.instanceUrl}/${url}`
openCommand(isWin, instanceUrl, url) ==
    [program |-> IF isWin THEN "start" ELSE "open",
     completeUrl |-> [instanceUrl |-> instanceUrl, url |-> url]]

\* go() resumes from `await metadata.getUrl()`: it launches the browser,
\* or rejects with getUrl's error
GoAfterGetUrl ==
    /\ pc = "awaitUrl"
    /\ getUrlPromise.status \in {"resolved", "rejected"}
    /\ IF getUrlPromise.status = "resolved"
       THEN /\ execCalls' = Append(execCalls,
                                   openCommand(isWindows(platform),
                                               conn.instanceUrl,
                                               getUrlPromise.url))
            /\ execExit' = "running"
            /\ exception' = exception
            /\ pc' = "opening"
       ELSE /\ execCalls' = execCalls
            /\ execExit' = execExit
            /\ exception' = getUrlPromise.error
            /\ pc' = "goRejected"
    /\ UNCHANGED <<pathString, platform, conn, pathParsed, extension, metadata,
                   objLookup, secLookup, getUrlPromise, result, logged>>

\* the error execPromise rejects with when the command fails
execError == Err("Error", "Command failed: ", <<>>)

\* the open command exits: go() resolves, or rejects with exec's error
ExecCompletes ==
    /\ pc = "opening"
    /\ \E ok \in BOOLEAN :
         IF ok
         THEN /\ execExit' = "ok"
              /\ pc' = "goResolved"
              /\ exception' = exception
         ELSE /\ execExit' = "failed"
              /\ pc' = "goRejected"
              /\ exception' = execError
    /\ UNCHANGED <<pathString, platform, conn, pathParsed, extension, metadata,
                   objLookup, secLookup, getUrlPromise, execCalls, result,
                   logged>>

\* exception instanceof Error ? exception.message : String(exception)
messageOf(e) == [text |-> e.text, arg |-> e.arg]

\* mutant: the catch block is missing, every settled run reports success
runResult_NoCatch(rejected, e) ==
    [isSuccess |-> TRUE, error |-> NoResult.error, returned |-> TRUE]

\* what run() returns once go() has settled, given go()'s rejection if any
runResult(rejected, e) ==
    IF rejected
    THEN [isSuccess |-> FALSE, error |-> messageOf(e), returned |-> TRUE]
    ELSE [isSuccess |-> TRUE, error |-> NoResult.error, returned |-> TRUE]

\* run() resumes from `await go(...)`: the try returns success, the catch
\* logs and returns failure
RunReturns ==
    /\ pc \in {"goResolved", "goRejected"}
    /\ result' = runResult(pc = "goRejected", exception)
    /\ logged' = IF pc = "goRejected"
                 THEN Append(logged, messageOf(exception)) ELSE logged
    /\ pc' = "returned"
    /\ UNCHANGED <<pathString, platform, conn, pathParsed, extension, metadata,
                   objLookup, secLookup, getUrlPromise, execCalls, execExit, exception>>

Next ==
    \/ Classify
    \/ GetUrlSingleQuery
    \/ GetUrlApprovalProcess
    \/ GetUrlSObject
    \/ GetUrlQuickAction
    \/ GetUrlPageLayout
    \/ GetUrlRecordType
    \/ GetUrlField
    \/ ObjLookupCompletes
    \/ SecLookupCompletes
    \/ GoAfterGetUrl
    \/ ExecCompletes
    \/ RunReturns

Spec == Init /\ [][Next]_vars

\* ------------------------------------------------------------------------
\* Vocabulary of the properties
\* ------------------------------------------------------------------------

\* the 15 tokens the dispatch table registers
RegisteredTokens ==
    {EXT_FLOW, EXT_FIELD, EXT_VALIDATION_RULE, EXT_FLEXIPAGE, EXT_PROFILE,
     EXT_PERMISSIONSET, EXT_PERMISSIONSETGROUP, EXT_CLS, EXT_TRIGGER,
     EXT_RECORD_TYPE, EXT_LAYOUT, EXT_OBJECT, EXT_GLOBAL_VALUE_SET,
     EXT_QUICK_ACTION, EXT_APPROVAL_PROCESS}

\* go() has classified the path and called Factory.create
Dispatched == pc # "start"

\* metadata.getUrl() has been called
GetUrlCalled == pc \notin {"start", "created"} /\ metadata.kind # "none"

\* dispatch failed with the given message: no resolver was constructed,
\* nothing was queried or opened, and the run reports that message
FailsClosedWith(text) ==
    /\ metadata = NoMetadata
    /\ getUrlPromise.status = "none"
    /\ objLookup.status = "none"
    /\ secLookup.status = "none"
    /\ execCalls = <<>>
    /\ pc \in {"goRejected", "returned"}
    /\ exception.name = "Error" /\ exception.text = text /\ exception.arg = <<>>
    /\ result.returned =>
         ~result.isSuccess /\ result.error.text = text /\ result.error.arg = <<>>

\* the org answered a lookup with a list of n records
ObjAnswered == objLookup.answer.ok
SecAnswered == secLookup.answer.ok
ObjEmpty == ObjAnswered /\ Len(objLookup.answer.records) = 0
SecEmpty == SecAnswered /\ Len(secLookup.answer.records) = 0
ObjMany == ObjAnswered /\ Len(objLookup.answer.records) > 1
SecMany == SecAnswered /\ Len(secLookup.answer.records) > 1

\* a lookup failed otherwise than by an empty result: the transport failed,
\* getObjectId threw on a missing object name, or decoding the layout name
\* threw before the Layout query was built
ObjTransportFailed == objLookup.sent /\ objLookup.answer.error # NoError
SecTransportFailed == secLookup.answer.error # NoError
ObjThrew == objLookup.status = "rejected" /\ ~objLookup.sent
DecodeThrew ==
    /\ metadata.kind = "PageLayout"
    /\ GetUrlCalled
    /\ secLookup.status = "none"
OtherFailure ==
    ObjTransportFailed \/ SecTransportFailed \/ ObjThrew \/ DecodeThrew

\* the errors those failures reject with
OtherFailureErrors ==
    (IF ObjTransportFailed THEN {objLookup.answer.error} ELSE {})
    \cup (IF SecTransportFailed THEN {secLookup.answer.error} ELSE {})
    \cup (IF ObjThrew THEN {objLookup.error} ELSE {})
    \cup (IF DecodeThrew THEN {Err("URIError", "URI malformed", <<>>)} ELSE {})

ResolverNotFoundTexts ==
    {"Flow not found for ", "ValidationRule not found for ",
     "FlexiPage not found for ", "Profile not found for ",
     "PermissionSet not found for ", "PermissionSetGroup not found for ",
     "ApexClass not found for ", "ApexTrigger not found for ",
     "GlobalValueSet not found for ", "Approval process not found for ",
     "QuickAction not found for ", "Layout not found for ",
     "RecordType not found for ", "Field not found for "}

\* e is the not-found error of a lookup that came back empty, naming the
\* name that lookup searched for
NotFoundNaming(e) ==
    /\ e.name = "Error"
    /\ \/ /\ ObjEmpty
          /\ e.text = "Object not found for "
          /\ e.arg = interpolate(objLookup.objectName)
       \/ /\ SecEmpty
          /\ e.text \in ResolverNotFoundTexts
          /\ e.arg = interpolate(secLookup.name)

NoUrlReturned ==
    /\ getUrlPromise.status # "resolved"
    /\ execCalls = <<>>
    /\ result.returned => ~result.isSuccess

\* ------------------------------------------------------------------------
\* C1
\* ------------------------------------------------------------------------

\* C1 as stated: every token outside the 15 registered ones makes
\* Factory.create fail with 'Unsupported metadata type', no resolver being
\* constructed.  Refuted by the empty token (base "a."), which fails with
\* 'Invalid parameters'.
C1_AnyUnregisteredTokenUnsupported ==
    (Dispatched /\ extension \notin RegisteredTokens)
        => FailsClosedWith("Unsupported metadata type")

\* C1 amended: every non-empty token outside the 15 registered ones fails
\* with 'Unsupported metadata type', the empty token fails with 'Invalid
\* parameters', and in both cases no resolver is constructed.
C1_UnregisteredTokenFailsClosed ==
    (Dispatched /\ extension \notin RegisteredTokens)
        => IF extension = <<>>
           THEN FailsClosedWith("Invalid parameters")
           ELSE FailsClosedWith("Unsupported metadata type")

C1_Witness ==
    /\ pc = "returned"
    /\ extension = <<"f","o","o",".","b","a","r">>
    /\ metadata = NoMetadata
    /\ result.error.text = "Unsupported metadata type"

\* ------------------------------------------------------------------------
\* C2
\* ------------------------------------------------------------------------

\* C2 as stated, on the runs in which no call throws: once a catalog query
\* of getUrl has returned zero records, getUrl returns no URL and its
\* failure is the not-found error naming the searched name.  Refuted when
\* the other lookup of the invocation fails in transport: getUrl then
\* fails with the transport error.
C2_EmptyResultAlwaysNotFound ==
    ((ObjEmpty \/ SecEmpty) /\ ~ObjThrew /\ ~DecodeThrew)
        => /\ NoUrlReturned
           /\ getUrlPromise.status = "rejected"
                => NotFoundNaming(getUrlPromise.error)

\* C2 amended: once a catalog query of getUrl has returned zero records,
\* getUrl returns no URL; its failure is the not-found error naming the
\* searched name, unless another lookup of the invocation was rejected by a
\* transport failure or a thrown error (or decoding the layout name threw),
\* in which case it may be that error instead.
C2_EmptyResultNeverUrl ==
    (ObjEmpty \/ SecEmpty)
        => /\ NoUrlReturned
           /\ getUrlPromise.status = "rejected"
                => \/ NotFoundNaming(getUrlPromise.error)
                   \/ getUrlPromise.error \in OtherFailureErrors
           /\ result.returned =>
                \/ NotFoundNaming(Err("Error", result.error.text, result.error.arg))
                \/ \E e \in OtherFailureErrors :
                     result.error = [text |-> e.text, arg |-> e.arg]

C2_Witness ==
    /\ metadata.kind = "QuickAction"
    /\ SecEmpty
    /\ objLookup.status = "resolved"
    /\ pc = "returned"
    /\ result.error = [text |-> "QuickAction not found for ", arg |-> <<"N","e","w">>]

\* ------------------------------------------------------------------------
\* C3
\* ------------------------------------------------------------------------

Concurrent == metadata.kind \in ConcurrentKinds /\ GetUrlCalled

\* the states of the join: getUrl never waits with only one of the two
\* lookups issued; it holds a URL only when both lookups have resolved; as
\* soon as either lookup's promise is rejected getUrl is rejected too, with
\* nothing opened, whatever the state of the other lookup; and its error
\* is that of a rejected lookup, or the secondary not-found error once
\* both have resolved
C3_JoinInv ==
    Concurrent =>
        /\ getUrlPromise.status = "pending"
             => objLookup.status # "none" /\ secLookup.status # "none"
        /\ secLookup.status # "none" => objLookup.status # "none"
        /\ getUrlPromise.status = "resolved"
             => objLookup.status = "resolved" /\ secLookup.status = "resolved"
        /\ (objLookup.status = "rejected" \/ secLookup.status = "rejected")
             => getUrlPromise.status = "rejected" /\ NoUrlReturned
        /\ (getUrlPromise.status = "rejected" /\ ~DecodeThrew)
             => \/ /\ objLookup.status = "rejected"
                   /\ getUrlPromise.error = objLookup.error
                \/ /\ secLookup.status = "rejected"
                   /\ getUrlPromise.error = secLookup.error
                \/ /\ objLookup.status = "resolved"
                   /\ secLookup.status = "resolved"
                   /\ SecEmpty

\* the steps of the join: once getUrl is rejected, no later answer of the
\* other lookup changes the rejection
C3_JoinStep ==
    (Concurrent /\ getUrlPromise.status = "rejected")
        => getUrlPromise' = getUrlPromise

\* C3: in RecordType, PageLayout and QuickAction both lookups are issued
\* before getUrl awaits either; under every order of completion getUrl
\* returns a URL only after both have resolved; and when either lookup's
\* promise is rejected getUrl fails with no URL, without waiting for or
\* using the other lookup's result.
C3_FailFastJoin == []C3_JoinInv /\ [][C3_JoinStep]_vars

\* getUrl has failed on the object lookup's rejection while the secondary
\* lookup is still in flight
C3_Witness ==
    /\ Concurrent
    /\ objLookup.status = "rejected"
    /\ secLookup.status = "pending"
    /\ getUrlPromise = Rejected(objLookup.error)
    /\ pc = "returned"
    /\ ~result.isSuccess

\* ------------------------------------------------------------------------
\* C4
\* ------------------------------------------------------------------------

\* the failure of the run, if any: dispatch, resolution or the open command
RunFailure ==
    IF metadata.kind = "none"
    THEN Err("Error",
             IF extension = <<>> THEN "Invalid parameters"
             ELSE "Unsupported metadata type",
             <<>>)
    ELSE IF getUrlPromise.status = "rejected" THEN getUrlPromise.error
    ELSE IF execExit = "failed" THEN execError
    ELSE NoError

\* C4: the open command is run at most once, only once getUrl has returned
\* a URL, on `${instanceUrl}/${url}`; a run that ends has isSuccess = false
\* with the message of the failure exactly when classification, dispatch,
\* resolution or the open command failed, and isSuccess = true otherwise.
C4_OpenOnceAndResult ==
    /\ Len(execCalls) <= 1
    /\ execCalls # <<>> =>
         /\ getUrlPromise.status = "resolved"
         /\ execCalls[1].program = (IF platform = "win32" THEN "start" ELSE "open")
         /\ execCalls[1].completeUrl.instanceUrl = conn.instanceUrl
         /\ execCalls[1].completeUrl.url = getUrlPromise.url
    /\ execExit # "none" <=> execCalls # <<>>
    /\ result.returned =>
         /\ pc = "returned"
         /\ IF RunFailure = NoError
            THEN /\ result.isSuccess
                 /\ execExit = "ok"
                 /\ logged = <<>>
            ELSE /\ ~result.isSuccess
                 /\ result.error.text = RunFailure.text
                 /\ result.error.arg = RunFailure.arg
                 /\ logged = <<result.error>>
    /\ ~result.returned => result = NoResult /\ logged = <<>>

C4_Witness ==
    /\ pc = "returned"
    /\ execExit = "failed"
    /\ Len(execCalls) = 1
    /\ ~result.isSuccess
    /\ result.error.text = "Command failed: "

\* ------------------------------------------------------------------------
\* C5
\* ------------------------------------------------------------------------

\* positions of the dots of a filename
DotsOf(s) == {i \in 1..Len(s) : s[i] = "."}

\* what follows position i of s
After(s, i) == SubSeq(s, i + 1, Len(s))

\* the token the rule of C5 gives: with more than two dot-segments (two or
\* more dots) what follows the last dot but one, with two segments what
\* follows the dot, with one the filename itself
TokenByRule(base) ==
    LET dots == DotsOf(base)
    IN  IF Cardinality(dots) >= 2
        THEN After(base, CHOOSE i \in dots :
                            Cardinality({j \in dots : j > i}) = 1)
        ELSE IF Cardinality(dots) = 1
        THEN After(base, CHOOSE i \in dots : TRUE)
        ELSE base

\* C5: the token derived from a base filename is its last two dot-segments
\* joined by a dot when it has more than two, else its last segment; and
\* 'MyClass.cls' gives token 'cls' and API name 'MyClass'.
C5_TokenIsLastSegments ==
    Dispatched =>
        /\ extension = TokenByRule(pathParsed.base)
        /\ pathParsed.base = <<"M","y","C","l","a","s","s",".","c","l","s">>
             => /\ extension = <<"c","l","s">>
                /\ metadata.kind = "ApexClass"
                /\ metadata.metadataApiName = <<"M","y","C","l","a","s","s">>

C5_Witness ==
    /\ Dispatched
    /\ pathParsed.base = <<"a","a",".","a",".","a","a">>
    /\ extension = <<"a",".","a","a">>

\* ------------------------------------------------------------------------
\* C6
\* ------------------------------------------------------------------------

\* C6 as stated: 'Account.field-meta.xml' is classified as token
\* 'field-meta.xml' and API name 'Account.field'.  Refuted: stripping the
\* token and its dot from the base filename leaves 'Account'.
C6_AccountFieldApiName ==
    (pathString = <<"A","c","c","o","u","n","t",".","f","i","e","l","d","-","m","e","t","a",".","x","m","l">> /\ Dispatched)
        => /\ extension = <<"f","i","e","l","d","-","m","e","t","a",".","x","m","l">>
           /\ metadata.kind = "Field"
           /\ metadata.metadataApiName = <<"A","c","c","o","u","n","t",".","f","i","e","l","d">>

\* C6 amended: 'Account.field-meta.xml' is classified as token
\* 'field-meta.xml' and API name 'Account', the base filename being the
\* API name, a dot and the token.
C6_AccountFieldClassified ==
    (pathString = <<"A","c","c","o","u","n","t",".","f","i","e","l","d","-","m","e","t","a",".","x","m","l">> /\ Dispatched)
        => /\ extension = <<"f","i","e","l","d","-","m","e","t","a",".","x","m","l">>
           /\ metadata.kind = "Field"
           /\ metadata.metadataApiName = <<"A","c","c","o","u","n","t">>
           /\ pathParsed.base = metadata.metadataApiName \o DOT \o extension

C6_Witness ==
    /\ pathString = <<"A","c","c","o","u","n","t",".","f","i","e","l","d","-","m","e","t","a",".","x","m","l">>
    /\ pc = "created"
    /\ extension = <<"f","i","e","l","d","-","m","e","t","a",".","x","m","l">>
    /\ metadata.metadataApiName = <<"A","c","c","o","u","n","t">>

\* ------------------------------------------------------------------------
\* C7
\* ------------------------------------------------------------------------

\* the API name of a field-meta.xml file, as classified
FieldApiName ==
    SubSeq(pathParsed.base, 1, Len(pathParsed.base) - (Len(EXT_FIELD) + 1))

EndsIn(s, a, b) == Len(s) >= 2 /\ s[Len(s) - 1] = a /\ s[Len(s)] = b

EndsInC(s) == Len(s) >= 3 /\ s[Len(s) - 2] = "_" /\ EndsIn(s, "_", "c")

\* the segments of the path, on either separator the platform's path.parse
\* recognises
PathSegments ==
    split([i \in 1..Len(pathString) |->
             IF platform = "win32" /\ pathString[i] = "\\"
             THEN "/" ELSE pathString[i]],
          SLASH)

\* the path names the object folder: <object>/fields/<file>
HasObjectFolder == Len(PathSegments) >= 3

ObjectFolder == PathSegments[Len(PathSegments) - 2]

\* C7: for a standard field Field.getUrl sends no query and returns the
\* FieldsAndRelationships URL of the object folder and the API name less a
\* trailing 'Id'; for a custom field it sends the object-id lookup first,
\* and the CustomField lookup only once that lookup has succeeded.
C7_FieldLookups ==
    (metadata.kind = "Field" /\ GetUrlCalled) =>
        IF ~EndsInC(FieldApiName)
        THEN /\ ~objLookup.sent
             /\ secLookup.status = "none"
             /\ HasObjectFolder
             /\ getUrlPromise =
                  Resolved(Url("lightning/setup/ObjectManager/{objectFolderName}/FieldsAndRelationships/{metadataApiName}/view",
                               <<ObjectFolder,
                                 IF EndsIn(FieldApiName, "I", "d")
                                 THEN SubSeq(FieldApiName, 1, Len(FieldApiName) - 2)
                                 ELSE FieldApiName>>))
        ELSE /\ objLookup.sent
             /\ objLookup.objectName = ObjectFolder
             /\ secLookup.status # "none"
                  => /\ objLookup.status = "resolved"
                     /\ secLookup.sobject = "CustomField"
                     /\ secLookup.tableEnumOrId = objLookup.objectId

\* the same, for the paths whose object folder the code finds: there the
\* statement holds
C7_FieldLookupsWithFolder ==
    (objectFolderNameOf(platform, pathParsed) # Undefined) => C7_FieldLookups

\* ------------------------------------------------------------------------
\* C8
\* ------------------------------------------------------------------------

\* positions at which '__' occurs in s from position from on
DundersFrom(s, from) ==
    {i \in from..(Len(s) - 1) : s[i] = "_" /\ s[i + 1] = "_"}

Least(S) == CHOOSE i \in S : \A j \in S : i <= j

\* the segment the rule of C8 gives: split on '__' from the left; with
\* more than two parts the one after the first separator, else the first
SegmentByRule(s) ==
    LET first == DundersFrom(s, 1)
    IN  IF first = {} THEN s
        ELSE LET p == Least(first)
                 second == DundersFrom(s, p + 2)
             IN  IF second = {} THEN SubSeq(s, 1, p - 1)
                 ELSE SubSeq(s, p + 2, Least(second) - 1)

\* C8: getObjectFieldDeveloperName returns the segment after the namespace
\* when '__' splits its input in more than two parts and the first segment
\* otherwise; 'Namespace__Field__c' and 'Field__c' both give 'Field'; the
\* result never contains '__'.  The function is observed where the code
\* applies it: to the object name in getObjectId and to the API name of a
\* custom field.
C8_DeveloperName ==
    /\ objLookup.sent =>
         /\ objLookup.key = SegmentByRule(objLookup.objectName)
         /\ DundersFrom(objLookup.key, 1) = {}
    /\ (metadata.kind = "Field" /\ GetUrlCalled /\ EndsInC(FieldApiName)) =>
         /\ metadata.metadataApiName = SegmentByRule(FieldApiName)
         /\ DundersFrom(metadata.metadataApiName, 1) = {}
         /\ FieldApiName \in {<<"N","a","m","e","s","p","a","c","e","_","_","F","i","e","l","d","_","_","c">>, <<"F","i","e","l","d","_","_","c">>}
              => metadata.metadataApiName = <<"F","i","e","l","d">>

C8_Witness ==
    /\ metadata.kind = "Field"
    /\ FieldApiName = <<"N","a","m","e","s","p","a","c","e","_","_","F","i","e","l","d","_","_","c">>
    /\ secLookup.status = "resolved"
    /\ secLookup.key = <<"F","i","e","l","d">>

\* ------------------------------------------------------------------------
\* C9
\* ------------------------------------------------------------------------

FirstId(lookup) == lookup.answer.records[1].Id

\* the values a resolver's URL is built from, taken from the first record
\* of each answer
FirstRecordParams ==
    CASE metadata.kind = "ValidationRule" ->
           <<secLookup.answer.records[1].EntityDefinitionId, FirstId(secLookup)>>
      [] metadata.kind \in (SingleQueryKinds \ {"ValidationRule"})
                           \cup {"ApprovalProcess"} ->
           <<FirstId(secLookup)>>
      [] metadata.kind = "SObject" -> <<FirstId(objLookup)>>
      [] metadata.kind \in ConcurrentKinds ->
           <<FirstId(objLookup), FirstId(secLookup)>>
      [] metadata.kind = "Field" ->
           IF \/ endsWith(objLookup.objectName, SUFFIX_MDT)
              \/ endsWith(objLookup.objectName, SUFFIX_E)
           THEN <<FirstId(secLookup)>>
           ELSE <<FirstId(objLookup), FirstId(secLookup)>>

\* C9 as stated, on the runs in which no call throws: once a catalog query
\* has returned more than one record, getUrl does not fail, and the URL it
\* returns is built from the first record.  Refuted when the other lookup
\* of the invocation fails in transport or comes back empty: getUrl then
\* fails.
C9_ManyRecordsAlwaysSucceed ==
    ((ObjMany \/ SecMany) /\ ~ObjThrew /\ ~DecodeThrew)
        => /\ getUrlPromise.status # "rejected"
           /\ getUrlPromise.status = "resolved"
                => getUrlPromise.url.params = FirstRecordParams

\* C9 amended: a result of more than one record is never itself an error:
\* when getUrl fails after one, another lookup of the invocation came back
\* empty or was rejected, or decoding the layout name threw; and when
\* getUrl succeeds the URL is built from the first record of each result.
C9_ManyRecordsFirstWins ==
    (ObjMany \/ SecMany)
        => /\ getUrlPromise.status = "rejected"
                => \/ getUrlPromise.error \in OtherFailureErrors
                   \/ NotFoundNaming(getUrlPromise.error)
           /\ (getUrlPromise.status = "pending")
                => objLookup.status = "pending" \/ secLookup.status = "pending"
           /\ getUrlPromise.status = "resolved"
                => getUrlPromise.url.params = FirstRecordParams

C9_Witness ==
    /\ metadata.kind = "ValidationRule"
    /\ Len(secLookup.answer.records) = 2
    /\ secLookup.answer.records[1] # secLookup.answer.records[2]
    /\ secLookup.answer.records[1].Id = <<"0","2">>
    /\ secLookup.answer.records[1].EntityDefinitionId = <<"E","2">>
    /\ getUrlPromise.status = "resolved"
    /\ result.isSuccess

\* ------------------------------------------------------------------------
\* C10
\* ------------------------------------------------------------------------

\* C10: in RecordType, PageLayout and QuickAction, when both lookups came
\* back with zero records, getUrl has failed with 'Object not found for
\* {object name}', never with the secondary record's not-found error,
\* whichever answer came first.
C10_ObjectNotFoundWins ==
    (Concurrent /\ ObjEmpty /\ SecEmpty)
        => /\ getUrlPromise.status = "rejected"
           /\ getUrlPromise.error.name = "Error"
           /\ getUrlPromise.error.text = "Object not found for "
           /\ getUrlPromise.error.arg = objLookup.objectName
           /\ result.returned =>
                result.error = [text |-> "Object not found for ",
                                arg |-> objLookup.objectName]

C10_Witness ==
    /\ Concurrent
    /\ ObjEmpty
    /\ SecEmpty
    /\ pc = "returned"
    /\ result.error.text = "Object not found for "

=============================================================================
